---- MODULE Spec2Model ----
(***************************************************************************)
(* Model of src/main.py: a Discord bot that publishes coding challenges,   *)
(* times each participant's attempt, filters and grades submissions with   *)
(* an external AI oracle, and keeps a live leaderboard per question.       *)
(*                                                                         *)
(* The bot runs on one asyncio event loop.  The pymongo calls are          *)
(* synchronous, so a handler runs atomically from one `await` to the next; *)
(* each action below is one such stretch of a handler.                     *)
(*                                                                         *)
(* Left out of the state: the language, title and description (no handler  *)
(* branches on them), the text of the messages sent to the user, and the   *)
(* timestamps written into the records.                                    *)
(***************************************************************************)
EXTENDS Integers, Sequences, FiniteSets, Bags, TLC

VARIABLES
    now,              \* datetime.utcnow(), in seconds
    attempt_timers,   \* the dict attempt_timers: <<user, question>> -> start time
    questions_col,    \* collection questions: _id -> [active, leaderboard_msg_id]
    submissions_col,  \* collection submissions, in insertion order
    users_col,        \* collection users: _id -> cumulative score
    posts,            \* !post handlers suspended at `await lb_channel.send`
    views,            \* questions whose QuestionView message is in the channel
    modals,           \* CodeModal windows open on the clients: <<user, question>> -> count
    inflight,         \* bag of on_submit handlers suspended at an await
    board,            \* content of each question's leaderboard message
    nsel,             \* number of language selections so far (bounds the run)
    hist,             \* history, per key with an open modal: time of the latest
                      \* selection, whether it came after the key's last submit,
                      \* and whether it overwrote an older timer entry
    last              \* history: the latest command, selection, submit or
                      \* grading step, what it saw and what it decided

vars == <<now, attempt_timers, questions_col, submissions_col, users_col, posts,
          views, modals, inflight, board, nsel, hist, last>>

----------------------------------------------------------------------------
(* Bounds of the model *)

MaxUsers == 2
MaxQuestions == 2
MaxSelects == 2
MaxTime == 30
TickStep == 15
MaxSmall == 3     \* SpecRank: ledgers of 1..MaxSmall Submissions, and
MaxOver == 2      \* of TopN - 1 .. TopN + MaxOver Submissions

Users == 1..MaxUsers
QIds == 1..MaxQuestions
Keys == Users \X QIds

----------------------------------------------------------------------------
(* Program constants *)

MinDuration == 15
TopN == 50

\* line 168: the deny-list, as sequences of characters
banned ==
    << <<"h","e","r","e"," ","i","s"," ","t","h","e"," ","c","o","d","e">>,
       <<"a","s"," ","a","n"," ","a","i">>,
       <<"h","o","p","e"," ","t","h","i","s"," ","h","e","l","p","s">> >>

FeedbackSystemError == "System Error. Please notify the Lecturer."
FeedbackSafety == "Code flagged by AI Safety filters."
FeedbackNone == "No feedback."
FeedbackAIAlert == "AI Detection Alert"
FeedbackOracle == "oracle feedback"

----------------------------------------------------------------------------
(* Inputs *)

\* Code texts a participant may paste into the modal.
CodeTexts ==
    { <<"a","s"," ","a","n"," ","a",";">>,
      <<"/","/"," ","A","s"," ","A","n"," ","A","<U+0130>">>,
      <<"H","O","P","E"," ","T","H","I","S"," ","H","E","L","P","S">>,
      <<"h","e","r","e"," ","i","s"," ","t","h","e"," ","c","o","d","e",":">> }

\* Scores the oracle may report; it is untrusted, so some are out of range.
OracleScores == {-5, 70, 80, 150}

\* JSON types the member "score" of a verdict may have; json.loads (line 76)
\* checks none.  A string score is "80" (score holds the number its digits
\* spell); a boolean score has score 0 for false and 1 for true, the numbers
\* Python takes them for; a null score, the object score {} and the array
\* score [] have score 0.
ScoreTypes == {"number", "string", "null", "boolean", "object", "array"}

\* What the call to the generative model may produce.
OracleResponses ==
    [kind : {"exception", "empty", "notjson", "array", "emptyobject"},
     score_type : {"number"}, score : {0}, ai : {FALSE}]
    \cup [kind : {"object"}, score_type : {"number"}, score : OracleScores,
          ai : BOOLEAN]
    \cup [kind : {"object"}, score_type : {"string"}, score : {80}, ai : BOOLEAN]
    \cup [kind : {"object"}, score_type : {"null", "object", "array"},
          score : {0}, ai : BOOLEAN]
    \cup [kind : {"object"}, score_type : {"boolean"}, score : {0, 1},
          ai : BOOLEAN]

\* Arguments of !post, as sequences of characters.
PostArgs == { <<>>, <<"t">>, <<"t","|","d">>, <<"t","|","d","|","e">> }

----------------------------------------------------------------------------
(* Pure helpers *)

\* a dict with key k set to v
SetKey(d, k, v) == [x \in (DOMAIN d) \cup {k} |-> IF x = k THEN v ELSE d[x]]

\* a dict without key k
DelKey(d, k) == [x \in (DOMAIN d) \ {k} |-> d[x]]

\* Characters are one-character strings; a character outside ASCII is written
\* by its code point, as in "<U+0130>".  The alphabet of the model is ASCII,
\* the letters of Latin-1 and the three characters U+0130, U+212A and U+212B.

\* line 169: str.lower() of the one-character string c, as a sequence of
\* characters: it lowers every cased character, and U+0130 (capital I with
\* dot above) becomes the two characters "i", U+0307
LowerChar(c) ==
    CASE c = "A" -> <<"a">> [] c = "B" -> <<"b">> [] c = "C" -> <<"c">>
      [] c = "D" -> <<"d">> [] c = "E" -> <<"e">> [] c = "F" -> <<"f">>
      [] c = "G" -> <<"g">> [] c = "H" -> <<"h">> [] c = "I" -> <<"i">>
      [] c = "J" -> <<"j">> [] c = "K" -> <<"k">> [] c = "L" -> <<"l">>
      [] c = "M" -> <<"m">> [] c = "N" -> <<"n">> [] c = "O" -> <<"o">>
      [] c = "P" -> <<"p">> [] c = "Q" -> <<"q">> [] c = "R" -> <<"r">>
      [] c = "S" -> <<"s">> [] c = "T" -> <<"t">> [] c = "U" -> <<"u">>
      [] c = "V" -> <<"v">> [] c = "W" -> <<"w">> [] c = "X" -> <<"x">>
      [] c = "Y" -> <<"y">> [] c = "Z" -> <<"z">>
      [] c = "<U+00C0>" -> <<"<U+00E0>">> [] c = "<U+00C1>" -> <<"<U+00E1>">>
      [] c = "<U+00C2>" -> <<"<U+00E2>">> [] c = "<U+00C3>" -> <<"<U+00E3>">>
      [] c = "<U+00C4>" -> <<"<U+00E4>">> [] c = "<U+00C5>" -> <<"<U+00E5>">>
      [] c = "<U+00C6>" -> <<"<U+00E6>">> [] c = "<U+00C7>" -> <<"<U+00E7>">>
      [] c = "<U+00C8>" -> <<"<U+00E8>">> [] c = "<U+00C9>" -> <<"<U+00E9>">>
      [] c = "<U+00CA>" -> <<"<U+00EA>">> [] c = "<U+00CB>" -> <<"<U+00EB>">>
      [] c = "<U+00CC>" -> <<"<U+00EC>">> [] c = "<U+00CD>" -> <<"<U+00ED>">>
      [] c = "<U+00CE>" -> <<"<U+00EE>">> [] c = "<U+00CF>" -> <<"<U+00EF>">>
      [] c = "<U+00D0>" -> <<"<U+00F0>">> [] c = "<U+00D1>" -> <<"<U+00F1>">>
      [] c = "<U+00D2>" -> <<"<U+00F2>">> [] c = "<U+00D3>" -> <<"<U+00F3>">>
      [] c = "<U+00D4>" -> <<"<U+00F4>">> [] c = "<U+00D5>" -> <<"<U+00F5>">>
      [] c = "<U+00D6>" -> <<"<U+00F6>">> [] c = "<U+00D8>" -> <<"<U+00F8>">>
      [] c = "<U+00D9>" -> <<"<U+00F9>">> [] c = "<U+00DA>" -> <<"<U+00FA>">>
      [] c = "<U+00DB>" -> <<"<U+00FB>">> [] c = "<U+00DC>" -> <<"<U+00FC>">>
      [] c = "<U+00DD>" -> <<"<U+00FD>">> [] c = "<U+00DE>" -> <<"<U+00FE>">>
      [] c = "<U+0130>" -> <<"i", "<U+0307>">>
      [] c = "<U+212A>" -> <<"k">>
      [] c = "<U+212B>" -> <<"<U+00E5>">>
      [] OTHER -> <<c>>

RECURSIVE LowerFrom(_, _)
\* str.lower() of the characters of s from position i on
LowerFrom(s, i) ==
    IF i > Len(s) THEN <<>> ELSE LowerChar(s[i]) \o LowerFrom(s, i + 1)

\* the text compared as typed, without lowering it
Lower_AsTyped(s) == s

\* line 169: str.lower()
Lower(s) == LowerFrom(s, 1)

\* Python's `sub in s` on strings
Contains(s, sub) ==
    \E i \in 0..(Len(s) - Len(sub)) :
        \A j \in 1..Len(sub) : s[i + j] = sub[j]

\* the speed trap skipped when no time has elapsed (no timer was found)
TooFast_OnlyWithTimer(duration) == duration > 0 /\ duration < MinDuration

\* line 162
TooFast(duration) == duration < MinDuration

\* line 169
SloppyPaste(code) ==
    \E k \in 1..Len(banned) : Contains(Lower(code), banned[k])

\* line 264: len(args.split('|'))
NumParts(args) == 1 + Cardinality({i \in 1..Len(args) : args[i] = "|"})

\* lines 70-80: grade_submission, given what the model call produced: an
\* exception, a response without parts, a text that is not JSON, a JSON array,
\* the JSON object {} or a JSON object with all the members.  The result is
\* what json.loads returned (isdict tells a JSON object from any other JSON
\* value; keys are the members present) or one of the two fixed fallback
\* dictionaries.
AllKeys == {"score", "feedback", "status", "is_ai_suspected"}

grade_submission(resp) ==
    CASE resp.kind = "exception" ->
           [isdict |-> TRUE, keys |-> AllKeys,
            score_type |-> "number", score |-> 0,
            feedback |-> FeedbackSystemError, is_ai_suspected |-> FALSE]
      [] resp.kind = "empty" ->
           [isdict |-> TRUE, keys |-> AllKeys,
            score_type |-> "number", score |-> 0,
            feedback |-> FeedbackSafety, is_ai_suspected |-> FALSE]
      [] resp.kind = "notjson" ->
           [isdict |-> TRUE, keys |-> AllKeys,
            score_type |-> "number", score |-> 0,
            feedback |-> FeedbackSystemError, is_ai_suspected |-> FALSE]
      [] resp.kind = "array" ->
           [isdict |-> FALSE, keys |-> {},
            score_type |-> "number", score |-> 0,
            feedback |-> FeedbackNone, is_ai_suspected |-> FALSE]
      [] resp.kind = "emptyobject" ->
           [isdict |-> TRUE, keys |-> {},
            score_type |-> "number", score |-> 0,
            feedback |-> FeedbackNone, is_ai_suspected |-> FALSE]
      [] OTHER ->
           [isdict |-> TRUE, keys |-> AllKeys,
            score_type |-> resp.score_type, score |-> resp.score,
            feedback |-> FeedbackOracle, is_ai_suspected |-> resp.ai]

\* dict.get(key, default); the type of the score is a part of the member
\* "score"
Get(result, key, default) ==
    IF (IF key = "score_type" THEN "score" ELSE key) \in result.keys
    THEN result[key] ELSE default

\* lines 183-189: the score, feedback and flag on_submit derives from the verdict
FinalFlag(result) == Get(result, "is_ai_suspected", FALSE)

\* the score taken from the verdict even when it is flagged
FinalScore_NoOverride(result) == Get(result, "score", 0)

FinalScore(result) ==
    IF FinalFlag(result) THEN 0 ELSE Get(result, "score", 0)

\* the type of that score: the 0 of line 188 and the default of line 183 are
\* numbers
FinalScoreType(result) ==
    IF FinalFlag(result) THEN "number" ELSE Get(result, "score_type", "number")

FinalFeedback(result) ==
    IF FinalFlag(result) THEN FeedbackAIAlert
    ELSE Get(result, "feedback", FeedbackNone)

\* lines 192-201: the document on_submit inserts
SubmissionDoc(user, q, duration, result) ==
    [user_id |-> user, question_id |-> q,
     score_type |-> FinalScoreType(result), score |-> FinalScore(result),
     feedback |-> FinalFeedback(result), duration_seconds |-> duration,
     is_ai_flagged |-> FinalFlag(result)]

\* line 203: `score > 0` raises TypeError when the score is a string, None,
\* a dict or a list; a bool is an int in Python and is compared as 0 or 1
ScoreTestRaises(result) ==
    FinalScoreType(result) \notin {"number", "boolean"}

\* line 204: the score true passes `score > 0`, and MongoDB refuses a $inc
\* whose argument is not a number: update_one raises
IncRefused(result) ==
    FinalScoreType(result) = "boolean" /\ FinalScore(result) > 0

\* the increment applied without the test `score > 0`
IncScore_Unguarded(col, user, score) ==
    IF user \in DOMAIN col
    THEN [col EXCEPT ![user] = @ + score]
    ELSE col @@ (user :> score)

\* lines 203-204: users_col.update_one(..., {"$inc": {"score": score}}, upsert=True)
IncScore(col, user, score) ==
    IF score > 0
    THEN IF user \in DOMAIN col
         THEN [col EXCEPT ![user] = @ + score]
         ELSE col @@ (user :> score)
    ELSE col

\* line 175: submissions_col.find_one({"user_id": ..., "question_id": ...})
AlreadySubmitted(col, user, q) ==
    \E i \in 1..Len(col) : col[i].user_id = user /\ col[i].question_id = q

----------------------------------------------------------------------------
(* Leaderboard *)

\* line 89: find({"question_id": q})
SubsOf(col, q) == SelectSeq(col, LAMBDA d : d.question_id = q)

\* line 89: MongoDB compares values of different types by type: null is
\* below every number, every number below every string, every string below
\* every object and every object below every boolean; a sort takes the empty
\* array for less than null
TypeRank(t) ==
    CASE t = "array" -> 0
      [] t = "null" -> 1
      [] t = "number" -> 2
      [] t = "string" -> 3
      [] t = "object" -> 4
      [] t = "boolean" -> 5

\* line 89: score a is above score b in MongoDB's order.  Two numbers compare
\* by value and true is above false.  Two strings compare as texts; the only
\* string score of the model is "80", the only object {}, the only array [].
ScoreAbove(a, b) ==
    \/ TypeRank(a.score_type) > TypeRank(b.score_type)
    \/ /\ a.score_type = b.score_type
       /\ a.score_type \in {"number", "boolean"}
       /\ a.score > b.score

\* line 89: the two scores are equal in MongoDB's order
ScoreEqual(a, b) ==
    /\ a.score_type = b.score_type
    /\ a.score = b.score

\* ties in score broken by the longer duration
SortsBefore_SlowestFirst(a, b) ==
    \/ ScoreAbove(a, b)
    \/ ScoreEqual(a, b) /\ a.duration_seconds > b.duration_seconds

\* line 89: .sort([("score", -1), ("duration_seconds", 1)]): a sorts strictly
\* before b
SortsBefore(a, b) ==
    \/ ScoreAbove(a, b)
    \/ ScoreEqual(a, b) /\ a.duration_seconds < b.duration_seconds

\* line 89: every order the sort may return for the documents subs[i], i in S;
\* documents with equal keys may come in any relative order.
RECURSIVE Rankings(_, _)
Rankings(subs, S) ==
    IF S = {} THEN { <<>> }
    ELSE UNION { { <<subs[m]>> \o r : r \in Rankings(subs, S \ {m}) } :
                 m \in { i \in S : \A j \in S : ~SortsBefore(subs[j], subs[i]) } }

\* lines 109-113
Medal(i) ==
    IF i = 1 THEN "gold"
    ELSE IF i = 2 THEN "silver"
    ELSE IF i = 3 THEN "bronze"
    ELSE IF i <= 10 THEN "medal"
    ELSE "number"

\* lines 99-115: one line of the leaderboard per document, the first TopN only
Rows(ranked) ==
    [i \in 1..(IF Len(ranked) < TopN THEN Len(ranked) ELSE TopN) |->
        [rank |-> i, icon |-> Medal(i), user_id |-> ranked[i].user_id,
         score_type |-> ranked[i].score_type, score |-> ranked[i].score,
         minutes |-> ranked[i].duration_seconds \div 60,
         seconds |-> ranked[i].duration_seconds % 60]]

\* lines 84-115: the descriptions update_live_leaderboard may build for q
Leaderboards(col, q) ==
    LET subs == SubsOf(col, q)
    IN { Rows(r) : r \in Rankings(subs, 1..Len(subs)) }

----------------------------------------------------------------------------
(* Timer registry *)

\* the entry written only when the key has none (dict.setdefault)
TimersAfterSelect_KeepFirst(timers, key, t) ==
    IF key \in DOMAIN timers THEN timers ELSE SetKey(timers, key, t)

\* line 240: attempt_timers[key] = datetime.utcnow()
TimersAfterSelect(timers, key, t) == SetKey(timers, key, t)

\* lines 155-158: the elapsed duration on_submit computes
Elapsed(timers, key, t) ==
    IF key \in DOMAIN timers THEN t - timers[key] ELSE 0

\* the entry left in place by a submit
TimersAfterSubmit_Kept(timers, key) == timers

\* lines 157-159: the entry is deleted when one was found
TimersAfterSubmit(timers, key) ==
    IF key \in DOMAIN timers THEN DelKey(timers, key) ELSE timers

\* the gate without the deny-list
Gate_NoDenyList(duration, code, col, user, q) ==
    IF TooFast(duration) THEN "too_fast"
    ELSE IF AlreadySubmitted(col, user, q) THEN "duplicate"
    ELSE "grading"

\* the gate without the duplicate check
Gate_NoDuplicateCheck(duration, code, col, user, q) ==
    IF TooFast(duration) THEN "too_fast"
    ELSE IF SloppyPaste(code) THEN "content"
    ELSE "grading"

\* lines 161-179: what on_submit decides before it defers and calls the oracle
Gate(duration, code, col, user, q) ==
    IF TooFast(duration) THEN "too_fast"
    ELSE IF SloppyPaste(code) THEN "content"
    ELSE IF AlreadySubmitted(col, user, q) THEN "duplicate"
    ELSE "grading"

----------------------------------------------------------------------------
(* History records *)

NoResp == [kind |-> "none", score_type |-> "number", score |-> 0, ai |-> FALSE]

Event(op, user, q, out) ==
    [op |-> op, user |-> user, q |-> q, out |-> out, code |-> <<>>, dur |-> 0,
     timed |-> FALSE, since |-> 0, fresh |-> FALSE, over |-> FALSE,
     prev |-> "none", resp |-> NoResp]

----------------------------------------------------------------------------
(* The state after the bot has started *)

Init ==
    /\ now = 0
    /\ attempt_timers = <<>>
    /\ questions_col = <<>>
    /\ submissions_col = <<>>
    /\ users_col = <<>>
    /\ posts = {}
    /\ views = {}
    /\ modals = [k \in Keys |-> 0]
    /\ inflight = EmptyBag
    /\ board = <<>>
    /\ nsel = 0
    /\ hist = <<>>
    /\ last = Event("start", 0, 0, "none")

\* Time passes.
Tick ==
    /\ now + TickStep <= MaxTime
    /\ now' = now + TickStep
    /\ UNCHANGED <<attempt_timers, questions_col, submissions_col, users_col,
                   posts, views, modals, inflight, board, nsel, hist, last>>

----------------------------------------------------------------------------
(* !post  (lines 260-310) *)

\* line 271: update_many({"active": True}, {"$set": {"active": False}})
Deactivated(col) == [x \in DOMAIN col |-> [col[x] EXCEPT !.active = FALSE]]

\* lines 287-294: insert_one of the new question
WithQuestion(col, q) == SetKey(col, q, [active |-> TRUE])

\* lines 263-269: the arguments do not split into a title and a description
PostSyntaxError ==
    /\ \E args \in PostArgs : NumParts(args) < 2
    /\ last' = Event("post", 0, 0, "syntax")
    /\ UNCHANGED <<now, attempt_timers, questions_col, submissions_col,
                   users_col, posts, views, modals, inflight, board, nsel, hist>>

\* lines 263-285: parse, deactivate the active questions, then suspend at
\* `await lb_channel.send`.  The question id is the id of the command message.
PostStart ==
    \E args \in PostArgs :
        LET q == Cardinality((DOMAIN questions_col) \cup posts) + 1 IN
        /\ NumParts(args) >= 2
        /\ q \in QIds
        /\ questions_col' = Deactivated(questions_col)
        /\ posts' = posts \cup {q}
        /\ last' = Event("post", 0, q, "sending")
        /\ UNCHANGED <<now, attempt_timers, submissions_col, users_col, views,
                       modals, inflight, board, nsel, hist>>

\* lines 285-308: the leaderboard message has been sent; insert the question
\* and send the question message with its language select.
PostInsert(q) ==
    /\ q \in posts
    /\ posts' = posts \ {q}
    /\ questions_col' = WithQuestion(questions_col, q)
    /\ board' = SetKey(board, q, <<>>)
    /\ views' = views \cup {q}
    /\ last' = Event("post", 0, q, "posted")
    /\ UNCHANGED <<now, attempt_timers, submissions_col, users_col, modals,
                   inflight, nsel, hist>>

----------------------------------------------------------------------------
(* LanguageSelect.callback  (lines 239-247) *)

\* lines 242-243
IsActive(col, q) == q \in DOMAIN col /\ col[q].active

SelectLanguage(p, q) ==
    LET key == <<p, q>> IN
    /\ q \in views
    /\ nsel < MaxSelects
    /\ nsel' = nsel + 1
    /\ attempt_timers' = TimersAfterSelect(attempt_timers, key, now)
    /\ hist' = SetKey(hist, key,
                 [selAt |-> now, armed |-> TRUE,
                  over |-> (key \in DOMAIN attempt_timers /\ attempt_timers[key] < now)])
    /\ IF IsActive(questions_col, q)
       THEN /\ modals' = [modals EXCEPT ![key] = @ + 1]
            /\ last' = Event("select", p, q, "modal")
       ELSE /\ UNCHANGED modals
            /\ last' = Event("select", p, q, "closed")
    /\ UNCHANGED <<now, questions_col, submissions_col, users_col, posts, views,
                   inflight, board>>

----------------------------------------------------------------------------
(* CodeModal.on_submit  (lines 152-222) *)

Handler(pc, p, q, duration, flagged, snap) ==
    [pc |-> pc, user |-> p, q |-> q, duration |-> duration,
     flagged |-> flagged, snap |-> snap]

Replace(bag, old, new) == (bag (-) SetToBag({old})) (+) SetToBag({new})

\* lines 153-179: up to `await interaction.response.defer`
SubmitCode(p, q, code) ==
    LET key == <<p, q>>
        duration == Elapsed(attempt_timers, key, now)
        out == Gate(duration, code, submissions_col, p, q)
    IN
    /\ modals[key] > 0
    /\ modals' = [modals EXCEPT ![key] = @ - 1]
    /\ attempt_timers' = TimersAfterSubmit(attempt_timers, key)
    /\ inflight' = IF out = "grading"
                   THEN inflight (+) SetToBag({Handler("grading", p, q, duration, FALSE, <<>>)})
                   ELSE inflight
    /\ hist' = IF modals[key] = 1 THEN DelKey(hist, key)
               ELSE [hist EXCEPT ![key].armed = FALSE]
    /\ last' = [Event("submit", p, q, out) EXCEPT
                  !.code = code, !.dur = duration,
                  !.timed = (key \in DOMAIN attempt_timers),
                  !.since = now - hist[key].selAt,
                  !.fresh = hist[key].armed,
                  !.over = hist[key].over,
                  !.prev = IF last.op = "submit" /\ last.user = p /\ last.q = q
                           THEN last.out ELSE "none"]
    /\ UNCHANGED <<now, questions_col, submissions_col, users_col, posts, views,
                   board, nsel>>

\* lines 182-219: the oracle call has returned; grade, save, add to the
\* user's total, then suspend at `await interaction.followup.send`.
\* A verdict that is not a JSON object has no .get: the handler raises at
\* line 183.  A score is inserted as it is, whatever its type.  Then the
\* comparison `score > 0` of line 203 raises TypeError (string, null, object,
\* array), or passes for true and update_one is refused (line 204): the
\* handler ends with the Submission saved, no total, no follow-up and no
\* refresh.  The score false fails `score > 0` like a 0: the handler goes on.
OracleReturns(h, resp) ==
    LET result == grade_submission(resp) IN
    /\ h \in BagToSet(inflight)
    /\ h.pc = "grading"
    /\ IF ~result.isdict
       THEN /\ inflight' = inflight (-) SetToBag({h})
            /\ last' = [Event("grade", h.user, h.q, "raised") EXCEPT
                          !.dur = h.duration, !.resp = resp]
            /\ UNCHANGED <<submissions_col, users_col>>
       ELSE IF ScoreTestRaises(result) \/ IncRefused(result)
       THEN /\ submissions_col' =
                   Append(submissions_col, SubmissionDoc(h.user, h.q, h.duration, result))
            /\ inflight' = inflight (-) SetToBag({h})
            /\ last' = [Event("grade", h.user, h.q, "saved_raised") EXCEPT
                          !.dur = h.duration, !.resp = resp]
            /\ UNCHANGED users_col
       ELSE /\ submissions_col' =
                   Append(submissions_col, SubmissionDoc(h.user, h.q, h.duration, result))
            /\ users_col' = IncScore(users_col, h.user, FinalScore(result))
            /\ inflight' = Replace(inflight, h,
                   Handler("followup", h.user, h.q, h.duration, FinalFlag(result), <<>>))
            /\ last' = [Event("grade", h.user, h.q, "saved") EXCEPT
                          !.dur = h.duration, !.resp = resp]
    /\ UNCHANGED <<now, attempt_timers, questions_col, posts, views, modals,
                   board, nsel, hist>>

\* lines 219-222 and 84-130: the result has been sent; unless the submission
\* is flagged, read the question's submissions, build the leaderboard and
\* suspend at `await channel.fetch_message`.
FollowupSent(h) ==
    /\ h \in BagToSet(inflight)
    /\ h.pc = "followup"
    /\ IF h.flagged
       THEN inflight' = inflight (-) SetToBag({h})
       ELSE \E rows \in Leaderboards(submissions_col, h.q) :
               inflight' = Replace(inflight, h,
                   Handler("edit", h.user, h.q, h.duration, h.flagged, rows))
    /\ UNCHANGED <<now, attempt_timers, questions_col, submissions_col,
                   users_col, posts, views, modals, board, nsel, hist, last>>

\* lines 130-131: the leaderboard message is edited
EditBoard(h) ==
    /\ h \in BagToSet(inflight)
    /\ h.pc = "edit"
    /\ board' = [board EXCEPT ![h.q] = h.snap]
    /\ inflight' = inflight (-) SetToBag({h})
    /\ UNCHANGED <<now, attempt_timers, questions_col, submissions_col,
                   users_col, posts, views, modals, nsel, hist, last>>

----------------------------------------------------------------------------

Next ==
    \/ Tick
    \/ PostSyntaxError
    \/ PostStart
    \/ \E q \in QIds : PostInsert(q)
    \/ \E p \in Users, q \in QIds : SelectLanguage(p, q)
    \/ \E p \in Users, q \in QIds, code \in CodeTexts : SubmitCode(p, q, code)
    \/ \E h \in BagToSet(inflight), resp \in OracleResponses : OracleReturns(h, resp)
    \/ \E h \in BagToSet(inflight) : FollowupSent(h)
    \/ \E h \in BagToSet(inflight) : EditBoard(h)

Spec == Init /\ [][Next]_vars

----------------------------------------------------------------------------
(* The store may fail.                                                     *)
(* A pymongo call raises when the server cannot be reached; on_submit has  *)
(* no try/except and no transaction around lines 192-204, so the exception *)
(* ends the handler where it is raised.  SpecFault is Spec with this step. *)

StoreCalls == {"insert_one", "update_one"}

\* lines 182-204: the oracle call has returned a verdict, and the store call
\* `failing` raises: insert_one (line 192), before anything is written, or
\* update_one (line 204), which is reached only with a score that passes
\* `score > 0` and after the Submission has been inserted.
OracleReturnsStoreFails(h, resp, failing) ==
    LET result == grade_submission(resp) IN
    /\ h \in BagToSet(inflight)
    /\ h.pc = "grading"
    /\ result.isdict
    /\ IF failing = "insert_one"
       THEN UNCHANGED submissions_col
       ELSE /\ ~ScoreTestRaises(result)
            /\ FinalScore(result) > 0
            /\ submissions_col' =
                   Append(submissions_col, SubmissionDoc(h.user, h.q, h.duration, result))
    /\ inflight' = inflight (-) SetToBag({h})
    /\ last' = [Event("grade", h.user, h.q, failing) EXCEPT
                  !.dur = h.duration, !.resp = resp]
    /\ UNCHANGED <<now, attempt_timers, questions_col, users_col, posts, views,
                   modals, board, nsel, hist>>

NextFault ==
    \/ Next
    \/ \E h \in BagToSet(inflight), resp \in OracleResponses, failing \in StoreCalls :
          OracleReturnsStoreFails(h, resp, failing)

SpecFault == Init /\ [][NextFault]_vars

----------------------------------------------------------------------------
(* The leaderboard of a crowded question.                                  *)
(* SpecRank starts where n - 1 participants have, one after the other,     *)
(* selected, submitted and been graded on question 1, each unflagged one   *)
(* refreshing the leaderboard, and participant n's on_submit is waiting    *)
(* for the oracle; it then runs that handler: grading and saving, the      *)
(* refresh, the edit.                                                      *)

RankSizes == (1..MaxSmall) \cup ((TopN - 1)..(TopN + MaxOver))

RankPatterns == 1..5

\* the i-th Submission of the ledger of n under pattern k
RankScore(i, k) ==
    CASE k = 1 -> << 70, 80, -5, 150 >>[(i % 4) + 1]
      [] k = 2 -> 70
      [] k = 3 -> IF i % 3 = 0 THEN 0 ELSE << 80, 150 >>[(i % 2) + 1]
      [] k = 4 -> 70
      [] OTHER -> IF i % 2 = 0 THEN 150 ELSE 70

RankDuration(i, k, n) ==
    CASE k = 1 -> 15 + i
      [] k = 2 -> 15 * (n - i + 1)
      [] k = 3 -> 15 + 2 * i
      [] k = 4 -> IF i = 1 THEN 30 ELSE 15 * (n - i + 2)
      [] OTHER -> 15 + ((i * 7) % 53)

RankDoc(i, k, n) ==
    [user_id |-> i, question_id |-> 1,
     score_type |-> "number", score |-> RankScore(i, k),
     feedback |-> IF k = 3 /\ i % 3 = 0 THEN FeedbackAIAlert ELSE FeedbackOracle,
     duration_seconds |-> RankDuration(i, k, n),
     is_ai_flagged |-> (k = 3 /\ i % 3 = 0)]

\* lines 221-222: the number of Submissions the ledger of n under pattern k
\* held when the leaderboard was last refreshed: a flagged Submission
\* refreshes nothing
RankShown(k, n) ==
    LET unflagged == {i \in 1..(n - 1) : ~RankDoc(i, k, n).is_ai_flagged}
    IN IF unflagged = {} THEN 0
       ELSE CHOOSE m \in unflagged : \A i \in unflagged : i <= m

InitRank ==
    \E n \in RankSizes, k \in RankPatterns :
        /\ now = 0
        /\ attempt_timers = <<>>
        /\ questions_col = (1 :> [active |-> TRUE])
        /\ submissions_col = [i \in 1..(n - 1) |-> RankDoc(i, k, n)]
        /\ users_col = [u \in {i \in 1..(n - 1) : RankScore(i, k) > 0} |->
                           RankScore(u, k)]
        /\ posts = {}
        /\ views = {1}
        /\ modals = [key \in Keys |-> 0]
        /\ inflight = SetToBag({Handler("grading", n, 1, RankDuration(n, k, n),
                                         FALSE, <<>>)})
        /\ \E rows \in Leaderboards([i \in 1..RankShown(k, n) |-> RankDoc(i, k, n)], 1) :
              board = (1 :> rows)
        /\ nsel = 0
        /\ hist = <<>>
        /\ last = [Event("submit", n, 1, "grading") EXCEPT
                     !.dur = RankDuration(n, k, n), !.timed = TRUE, !.fresh = TRUE]

NextRank ==
    \/ \E h \in BagToSet(inflight), resp \in OracleResponses : OracleReturns(h, resp)
    \/ \E h \in BagToSet(inflight) : FollowupSent(h)
    \/ \E h \in BagToSet(inflight) : EditBoard(h)

SpecRank == InitRank /\ [][NextRank]_vars

----------------------------------------------------------------------------
(* Steps of the handlers, as seen from outside *)

\* this step is the first stretch of an on_submit (it closes a modal)
SubmitStep == last'.op = "submit" /\ modals' # modals

\* this step is the stretch of an on_submit that follows the oracle call
GradeStep ==
    /\ last'.op = "grade"
    /\ \E h \in BagToSet(inflight) :
          h.pc = "grading" /\ CopiesIn(h, inflight') < CopiesIn(h, inflight)

\* line 203: the score of the Submission passes the test `score > 0`: a
\* number above 0, or true (a bool is an int in Python, and True > 0)
Positive(doc) == doc.score_type \in {"number", "boolean"} /\ doc.score > 0

ActiveQuestions == {q \in DOMAIN questions_col : questions_col[q].active}

DocsOf(p, q) ==
    {i \in 1..Len(submissions_col) :
        submissions_col[i].user_id = p /\ submissions_col[i].question_id = q}

----------------------------------------------------------------------------
(* C1 *)

\* C1: in every reachable state the ledger holds at most one Submission for
\* each (participant, question), also when submit handlers of the same
\* participant and question interleave at their awaits.
C1_AtMostOneSubmission ==
    \A p \in Users, q \in QIds : Cardinality(DocsOf(p, q)) <= 1

----------------------------------------------------------------------------
(* C2 *)

\* C2: in every reachable state at most one Question has active = true, also
\* when two !post handlers interleave between the deactivation and the insert.
C2_AtMostOneActive == Cardinality(ActiveQuestions) <= 1

----------------------------------------------------------------------------
(* C3 *)

C3_State ==
    /\ \A i \in 1..Len(submissions_col) :
          submissions_col[i].duration_seconds >= MinDuration
    /\ \A h \in BagToSet(inflight) : h.duration >= MinDuration
    /\ last.op = "submit" =>
          /\ ~last.timed => last.dur = 0
          /\ last.dur < MinDuration => last.out = "too_fast"

C3_Step ==
    (SubmitStep /\ last'.dur < MinDuration) =>
        /\ submissions_col' = submissions_col
        /\ users_col' = users_col
        /\ inflight' = inflight

\* C3: a submit whose elapsed duration is below 15 seconds is rejected as too
\* fast and creates no Submission (nor a handler that would create one), for
\* any code text; a submit that finds no timer entry has elapsed 0 and is
\* rejected too; every persisted Submission has duration_seconds >= 15.
C3_TooFastNeverPersisted == []C3_State /\ [][C3_Step]_vars

\* a Submission has been persisted, and the latest submit found no timer and
\* was rejected as too fast
C3_Witness ==
    /\ Len(submissions_col) > 0
    /\ last.op = "submit" /\ ~last.timed /\ last.dur = 0
    /\ last.out = "too_fast" /\ ~SloppyPaste(last.code)

----------------------------------------------------------------------------
(* C4 *)

LastDoc == submissions_col[Len(submissions_col)]

C4_Step ==
    (GradeStep /\ last'.resp.kind = "object" /\ last'.resp.ai) =>
        /\ Len(submissions_col') = Len(submissions_col) + 1
        /\ LastDoc'.user_id = last'.user
        /\ LastDoc'.question_id = last'.q
        /\ LastDoc'.score_type = "number" /\ LastDoc'.score = 0
        /\ LastDoc'.is_ai_flagged
        /\ users_col' = users_col

\* C4: when the oracle verdict of a submit has is_ai_suspected = true, the
\* Submission that is persisted has score 0 and is_ai_flagged = true whatever
\* score the oracle reported, and the participant's UserScore is not changed
\* by that submit; no flagged Submission carries another score.
C4_FlaggedScoresZero ==
    /\ [][C4_Step]_vars
    /\ [](\A i \in 1..Len(submissions_col) :
            submissions_col[i].is_ai_flagged => submissions_col[i].score = 0)

\* the oracle reported 150 and suspected AI; the Submission is saved with 0
C4_Witness ==
    /\ last.op = "grade" /\ last.out = "saved"
    /\ last.resp.kind = "object" /\ last.resp.ai /\ last.resp.score = 150
    /\ Len(submissions_col) > 0
    /\ LastDoc.is_ai_flagged /\ LastDoc.score = 0
    /\ LastDoc.user_id \notin DOMAIN users_col

----------------------------------------------------------------------------
(* C5 *)

RECURSIVE SumPositive(_, _)
\* the sum of the scores of p's Submissions among the first n that pass
\* `score > 0`; the score true counts 1, as in Python
SumPositive(p, n) ==
    IF n = 0 THEN 0
    ELSE SumPositive(p, n - 1) +
         (IF submissions_col[n].user_id = p /\ Positive(submissions_col[n])
          THEN submissions_col[n].score ELSE 0)

UserTotal(p) == IF p \in DOMAIN users_col THEN users_col[p] ELSE 0

\* C5: in every reachable state in which no submit is in flight, for every
\* participant p the cumulative UserScore of p (0 if there is no record)
\* equals the sum of the scores of all persisted Submissions of p with
\* score > 0, across all questions.
C5_TotalIsSumOfPositiveScores ==
    inflight = EmptyBag =>
        \A p \in Users : UserTotal(p) = SumPositive(p, Len(submissions_col))

----------------------------------------------------------------------------
(* C6 *)

\* the latest submit is a second try of the spec's example: the previous
\* submit of the same participant for the same question was rejected as too
\* fast, no selection was made since, at least 15 s have passed since the
\* selection, the code is clean and no Submission exists
C6_SecondTry ==
    /\ last.op = "submit"
    /\ last.prev = "too_fast"
    /\ ~last.fresh
    /\ last.since >= MinDuration
    /\ last.code = <<"a","s"," ","a","n"," ","a",";">>
    /\ DocsOf(last.user, last.q) = {}

\* C6 as the spec states it: A selects a language at T and submits at T+10,
\* which is rejected as too fast; A submits again at T+20 with valid code and
\* no new selection, and that second submit is accepted (it goes on to the
\* oracle and its Submission is persisted).
C6_SecondTryAccepted == C6_SecondTry => last.out = "grading"

C6_Step ==
    (SubmitStep /\ last'.prev = "too_fast" /\ ~last'.fresh) =>
        /\ last'.dur = 0
        /\ last'.out = "too_fast"
        /\ submissions_col' = submissions_col
        /\ users_col' = users_col
        /\ inflight' = inflight

\* C6, amended: the too-fast submit consumed the timer, so the second submit
\* made without a new selection finds no timer, has elapsed 0 and is rejected
\* as too fast whatever time has passed; nothing is persisted and the
\* UserScore is unchanged.
C6_SecondTryRejected == [][C6_Step]_vars

\* the second try of the example has been made, and was rejected
C6_Witness == C6_SecondTry /\ last.out = "too_fast" /\ last.dur = 0

----------------------------------------------------------------------------
(* C7 *)

C7_Step ==
    SubmitStep =>
        LET key == <<last'.user, last'.q>> IN
        /\ key \notin DOMAIN attempt_timers'
        /\ last'.timed => last'.fresh
        /\ ~last'.fresh =>
              /\ ~last'.timed
              /\ last'.dur = 0
              /\ last'.out = "too_fast"
              /\ submissions_col' = submissions_col
              /\ inflight' = inflight

C7_OnlySelectArms ==
    (\E k \in DOMAIN attempt_timers' : k \notin DOMAIN attempt_timers) =>
        (last'.op = "select" /\ nsel' = nsel + 1)

\* C7: a timer entry made by one language selection is consumed by at most
\* one submit.  After any submit by p for q, whatever its outcome, the entry
\* of (p, q) is absent; a submit by p for q that no new selection precedes,
\* concurrent with the first or later, finds no timer, has elapsed 0 and is
\* rejected; only a selection creates an entry, a rejection never does.
C7_TimerConsumedOnce == [][C7_Step /\ C7_OnlySelectArms]_vars

\* while a first submit of (p, q) is waiting for the oracle, a second one,
\* made 15 s after the selection without a new selection, has been rejected
C7_Witness ==
    /\ last.op = "submit" /\ ~last.fresh /\ ~last.timed
    /\ last.since >= MinDuration
    /\ last.out = "too_fast"
    /\ \E h \in BagToSet(inflight) :
          h.pc = "grading" /\ h.user = last.user /\ h.q = last.q

----------------------------------------------------------------------------
(* C8 *)

\* the code texts of the model that contain a phrase of the deny-list when
\* case is ignored
C8_Denied ==
    { <<"/","/"," ","A","s"," ","A","n"," ","A","<U+0130>">>,
      <<"H","O","P","E"," ","T","H","I","S"," ","H","E","L","P","S">>,
      <<"h","e","r","e"," ","i","s"," ","t","h","e"," ","c","o","d","e",":">> }

C8_Step ==
    (SubmitStep /\ last'.code \in C8_Denied) =>
        /\ last'.out \in {"too_fast", "content"}
        /\ last'.dur >= MinDuration => last'.out = "content"
        /\ submissions_col' = submissions_col
        /\ users_col' = users_col
        /\ inflight' = inflight

\* C8: a submit whose code contains, case-insensitively, a phrase of the
\* deny-list is rejected for every elapsed duration: no Submission is
\* created, no UserScore changes and no handler goes on to call the oracle.
C8_DenyListRejects == [][C8_Step]_vars

\* an upper-case phrase submitted 15 s or more after the selection has been
\* rejected for its content
C8_Witness ==
    /\ last.op = "submit"
    /\ last.code = <<"H","O","P","E"," ","T","H","I","S"," ","H","E","L","P","S">>
    /\ last.dur >= MinDuration
    /\ last.out = "content"

----------------------------------------------------------------------------
(* C9 *)

C9_FailureKinds == {"exception", "empty", "notjson", "array", "emptyobject"}

\* C9: for every failure of the grading oracle (exception, empty or
\* safety-filtered response, text that is not JSON, JSON that is not an
\* object of the verdict's shape) the submit still completes and persists a
\* Submission with score 0, is_ai_flagged = false and the fixed system-error
\* feedback.
C9_OracleFailureRecorded ==
    (last.op = "grade" /\ last.resp.kind \in C9_FailureKinds) =>
        /\ last.out = "saved"
        /\ \E i \in 1..Len(submissions_col) :
              /\ submissions_col[i].user_id = last.user
              /\ submissions_col[i].question_id = last.q
              /\ submissions_col[i].score = 0
              /\ ~submissions_col[i].is_ai_flagged
              /\ submissions_col[i].feedback = FeedbackSystemError

----------------------------------------------------------------------------
(* C10 *)

\* row a may stand above row b: higher score, or equal score and a duration
\* that is not longer.  Scores are compared as the store compares them, two
\* numbers by value.
C10_MayPrecede(a, b) ==
    \/ ScoreAbove(a, b)
    \/ ScoreEqual(a, b) /\ a.duration <= b.duration

C10_Key(doc) ==
    [user_id |-> doc.user_id, score_type |-> doc.score_type,
     score |-> doc.score, duration |-> doc.duration_seconds]

C10_RowKey(row) ==
    [user_id |-> row.user_id, score_type |-> row.score_type,
     score |-> row.score, duration |-> 60 * row.minutes + row.seconds]

\* rows is the ranking of question q's Submissions in the ledger
C10_IsRanking(rows, q) ==
    LET docs == {i \in 1..Len(submissions_col) : submissions_col[i].question_id = q}
        shown == {i \in docs :
                    \E r \in 1..Len(rows) :
                        C10_RowKey(rows[r]) = C10_Key(submissions_col[i])}
    IN
    /\ Len(rows) = IF Cardinality(docs) < 50 THEN Cardinality(docs) ELSE 50
    /\ \A r \in 1..Len(rows) :
          /\ rows[r].rank = r
          /\ \E i \in docs : C10_RowKey(rows[r]) = C10_Key(submissions_col[i])
    /\ \A r1, r2 \in 1..Len(rows) :
          r1 # r2 => rows[r1].user_id # rows[r2].user_id
    /\ \A r1, r2 \in 1..Len(rows) :
          r1 < r2 => C10_MayPrecede(C10_RowKey(rows[r1]), C10_RowKey(rows[r2]))
    /\ \A i \in docs \ shown : \A r \in 1..Len(rows) :
          C10_MayPrecede(C10_RowKey(rows[r]), C10_Key(submissions_col[i]))

\* C10: the ranking a leaderboard refresh produces lists the Submissions of
\* the question by score descending and, among equal scores, by duration
\* ascending; it ranges over all persisted Submissions of the question, the
\* AI-flagged ones included; ranks are the positions in this order from 1 and
\* only the first 50 are displayed.
C10_RankingOrdered ==
    /\ [](\A h \in BagToSet(inflight) :
            h.pc = "edit" => C10_IsRanking(h.snap, h.q))
    /\ [][\A q \in DOMAIN board :
            board'[q] # board[q] => C10_IsRanking(board[q], q)']_vars

\* the handler has saved its Submission and edited the leaderboard, which
\* shows it among 50 of more than 50 Submissions, a flagged one among them,
\* and two rows of equal score whose durations differ
C10_Witness ==
    /\ inflight = EmptyBag
    /\ last.op = "grade" /\ last.out = "saved"
    /\ \E r \in 1..Len(board[1]) : board[1][r].user_id = last.user
    /\ Len(submissions_col) > 50
    /\ Len(board[1]) = 50
    /\ \E r \in 1..50, i \in 1..Len(submissions_col) :
          /\ submissions_col[i].is_ai_flagged
          /\ submissions_col[i].user_id = board[1][r].user_id
    /\ \E r \in 1..49 :
          /\ board[1][r].score = board[1][r + 1].score
          /\ 60 * board[1][r].minutes + board[1][r].seconds
               < 60 * board[1][r + 1].minutes + board[1][r + 1].seconds

----------------------------------------------------------------------------
(* C11 *)

\* the handlers of on_submit that are in flight for question q: waiting for
\* the oracle, for the follow-up message or for the edit of the leaderboard
InFlightFor(q) == {h \in BagToSet(inflight) : h.q = q}

\* the Submission doc stands on the rows of a leaderboard
C11_Shown(rows, doc) ==
    \E r \in 1..Len(rows) :
        /\ rows[r].user_id = doc.user_id
        /\ rows[r].score_type = doc.score_type
        /\ rows[r].score = doc.score
        /\ 60 * rows[r].minutes + rows[r].seconds = doc.duration_seconds

\* C11: whenever no submit or refresh is in flight for question q, the
\* displayed leaderboard of q contains every persisted non-suspected
\* Submission of q (the ledgers of this specification are shorter than the
\* top-50 cut), also when the submits and refreshes of several participants
\* interleave so that an earlier-started refresh writes the display last.
\* Stated for the Submissions whose score is a number: the handler of a
\* string, null, object, array or true score raises at line 203 or 204 and
\* refreshes nothing.
C11_DisplayCurrent ==
    \A q \in DOMAIN board :
        InFlightFor(q) = {} =>
            \A i \in 1..Len(submissions_col) :
                (/\ submissions_col[i].question_id = q
                 /\ ~submissions_col[i].is_ai_flagged
                 /\ submissions_col[i].score_type = "number"
                 /\ Len(SubsOf(submissions_col, q)) <= TopN)
                => C11_Shown(board[q], submissions_col[i])

----------------------------------------------------------------------------
(* C12 *)

\* this step is a run of LanguageSelect.callback
SelectStep == last'.op = "select" /\ nsel' = nsel + 1

C12_Step ==
    (SelectStep /\ ~IsActive(questions_col, last'.q)) =>
        /\ last'.out = "closed"
        /\ attempt_timers' = attempt_timers
        /\ modals' = modals
        /\ questions_col' = questions_col
        /\ submissions_col' = submissions_col
        /\ users_col' = users_col
        /\ inflight' = inflight
        /\ board' = board

\* C12: a language selection for a question that is not active is rejected
\* with no state change; in particular the timer registry is unchanged: no
\* entry for (participant, question) is created and an existing entry is not
\* overwritten.
C12_ClosedSelectNoChange == [][C12_Step]_vars

----------------------------------------------------------------------------
(* C13 *)

C13_Step ==
    (SubmitStep /\ ~IsActive(questions_col, last'.q)) =>
        /\ last'.out # "grading"
        /\ inflight' = inflight
        /\ submissions_col' = submissions_col
        /\ users_col' = users_col

\* C13: a submit for a question that is inactive at the time of the submit
\* (the modal was opened while the question was active and a newer question
\* was published since) causes no state change: it does not go on to the
\* oracle call and the insert, so no Submission is created for the closed
\* question and no UserScore is incremented.
C13_ClosedSubmitNoOp == [][C13_Step]_vars

----------------------------------------------------------------------------
(* C14 *)

\* this step is a submit by a participant who has a Submission for the question
C14_FurtherSubmit ==
    SubmitStep /\ DocsOf(last'.user, last'.q) # {}

C14_NoOpStep ==
    C14_FurtherSubmit =>
        /\ last'.out = "duplicate"
        /\ submissions_col' = submissions_col
        /\ users_col' = users_col
        /\ attempt_timers' = attempt_timers
        /\ inflight' = inflight

\* C14 as the spec states it: when a Submission exists for (p, q), any further
\* submit by p for q returns AlreadySubmitted, for every elapsed duration and
\* every code text, and is a no-op: ledger, UserScore and timer registry are
\* unchanged and the oracle is not invoked.
C14_DuplicateIsNoOp == [][C14_NoOpStep]_vars

C14_Step ==
    C14_FurtherSubmit =>
        LET key == <<last'.user, last'.q>> IN
        /\ last'.out = IF last'.dur < 15 THEN "too_fast"
                       ELSE IF last'.code \in C8_Denied THEN "content"
                       ELSE "duplicate"
        /\ submissions_col' = submissions_col
        /\ users_col' = users_col
        /\ inflight' = inflight
        /\ DOMAIN attempt_timers' = (DOMAIN attempt_timers) \ {key}
        /\ \A k \in DOMAIN attempt_timers' : attempt_timers'[k] = attempt_timers[k]

\* C14, amended: the duplicate check is the fourth step of on_submit.  When a
\* Submission exists for (p, q), a further submit by p for q consumes the
\* timer entry of (p, q) if there is one, is rejected as too fast when its
\* elapsed duration is below 15 s, as conversational when its code contains a
\* deny-listed phrase, and as already submitted otherwise; in every case the
\* ledger and the UserScores are unchanged and the oracle is not invoked.
C14_DuplicateRejected == [][C14_Step]_vars

\* a participant who has a Submission for the question selected a language
\* again and submitted clean code 15 s later: rejected as already submitted
C14_Witness ==
    /\ last.op = "submit" /\ last.out = "duplicate"
    /\ last.timed /\ last.dur >= 15
    /\ DocsOf(last.user, last.q) # {}
    /\ <<last.user, last.q>> \notin DOMAIN attempt_timers

----------------------------------------------------------------------------
(* C15 *)

\* no on_submit handler of participant p is between the oracle call and its
\* store writes
C15_Ended(p) == \A h \in BagToSet(inflight) : h.user = p => h.pc # "grading"

\* C15: no partial writes when the store fails.  If the insert of the
\* Submission or the increment of the UserScore fails then neither is
\* committed: once the handler has ended, every persisted Submission of p
\* with a score above 0 has been added to p's UserScore.
\* Stated for the Submissions whose score is a number: the score true
\* passes `score > 0` too, and its increment is refused on every run.
C15_NoPartialWrite ==
    \A p \in Users :
        C15_Ended(p) =>
            \A i \in 1..Len(submissions_col) :
                (/\ submissions_col[i].user_id = p
                 /\ submissions_col[i].score_type = "number"
                 /\ Positive(submissions_col[i]))
                => UserTotal(p) >= SumPositive(p, Len(submissions_col))

----------------------------------------------------------------------------
(* C16 *)

\* C16: once the first question has been published, every reachable state
\* has exactly one active Question: !post deactivates the previous active
\* question and creates the new one atomically, so no state with zero active
\* questions is observable while a publish is suspended.
C16_ExactlyOneActive ==
    questions_col # <<>> => Cardinality(ActiveQuestions) = 1

----------------------------------------------------------------------------
(* C17 *)

\* C17: every persisted Submission has a score in 0..100, for every verdict
\* the oracle can return, a reported score below 0 or above 100 included.
C17_ScoreInRange ==
    \A i \in 1..Len(submissions_col) :
        /\ submissions_col[i].score_type = "number"
        /\ submissions_col[i].score >= 0 /\ submissions_col[i].score <= 100

----------------------------------------------------------------------------
(* C18 *)

C18_Step ==
    \A p \in Users :
        /\ UserTotal(p)' >= UserTotal(p)
        /\ p \in DOMAIN users_col => p \in DOMAIN users_col'
        /\ (UserTotal(p)' # UserTotal(p) \/ (p \in DOMAIN users_col' /\ p \notin DOMAIN users_col))
           => /\ Len(submissions_col') = Len(submissions_col) + 1
              /\ SubSeq(submissions_col', 1, Len(submissions_col)) = submissions_col
              /\ LastDoc'.user_id = p
              /\ Positive(LastDoc')
              /\ UserTotal(p)' = UserTotal(p) + LastDoc'.score

C18_State ==
    \A p \in DOMAIN users_col :
        /\ users_col[p] > 0
        /\ \E i \in 1..Len(submissions_col) :
              submissions_col[i].user_id = p /\ Positive(submissions_col[i])

\* C18: the cumulative UserScore of a participant never decreases and is
\* changed only by adding the positive score of a newly persisted Submission
\* of that participant; a UserScore record exists only for a participant who
\* has a persisted Submission with a score above 0.
C18_TotalMonotone == []C18_State /\ [][C18_Step]_vars

\* a participant with a positive total has just had a Submission saved with
\* the score -5 the oracle reported, and the total has kept its value
C18_Witness ==
    /\ last.op = "grade" /\ last.out = "saved"
    /\ last.resp.kind = "object" /\ last.resp.score = -5 /\ ~last.resp.ai
    /\ LastDoc.user_id = last.user /\ LastDoc.score = -5
    /\ last.user \in DOMAIN users_col
    /\ users_col[last.user] = SumPositive(last.user, Len(submissions_col) - 1)
    /\ users_col[last.user] > 0

----------------------------------------------------------------------------
(* C19 *)

\* the number of oracle calls that are pending
PendingCalls ==
    LET G == {h \in BagToSet(inflight) : h.pc = "grading"}
    IN BagCardinality([h \in G |-> inflight[h]])

\* a submit starts one oracle call exactly when it found a timer with an
\* elapsed duration of 15 s or more, its code has no deny-listed phrase and
\* the ledger has no Submission of the key; it never writes to the ledger
C19_SubmitPart ==
    SubmitStep =>
        LET p == last'.user
            q == last'.q
            passed == /\ last'.timed
                      /\ last'.dur >= 15
                      /\ last'.code \notin C8_Denied
                      /\ DocsOf(p, q) = {}
        IN
        /\ <<p, q>> \notin DOMAIN attempt_timers'
        /\ submissions_col' = submissions_col
        /\ users_col' = users_col
        /\ IF passed
           THEN /\ PendingCalls' = PendingCalls + 1
                /\ \E h \in BagToSet(inflight') :
                      /\ h.pc = "grading" /\ h.user = p /\ h.q = q
                      /\ h.duration = last'.dur
                      /\ CopiesIn(h, inflight') = CopiesIn(h, inflight) + 1
           ELSE inflight' = inflight

\* oracle calls are started by submits only, one per submit
C19_OraclePart ==
    PendingCalls' > PendingCalls =>
        (SubmitStep /\ PendingCalls' = PendingCalls + 1)

\* the ledger changes only by the append of one Submission, made by a handler
\* whose oracle call has just returned, for that handler's participant,
\* question and duration
C19_LedgerPart ==
    submissions_col' # submissions_col =>
        /\ Len(submissions_col') = Len(submissions_col) + 1
        /\ SubSeq(submissions_col', 1, Len(submissions_col)) = submissions_col
        /\ PendingCalls' = PendingCalls - 1
        /\ last'.op = "grade" /\ last'.resp \in OracleResponses
        /\ \E h \in BagToSet(inflight) :
              /\ h.pc = "grading" /\ h.duration >= 15
              /\ CopiesIn(h, inflight') = CopiesIn(h, inflight) - 1
              /\ LastDoc'.user_id = h.user
              /\ LastDoc'.question_id = h.q
              /\ LastDoc'.duration_seconds = h.duration

\* C19: the oracle is invoked at most once per submit, and only after that
\* submit has consumed its timer with an elapsed duration of 15 s or more,
\* passed the deny-list and found no Submission of (p, q); every persisted
\* Submission was appended by a handler that went through these steps and an
\* oracle call, so no record bypasses them.
C19_SingleWritePath ==
    /\ [][C19_SubmitPart /\ C19_OraclePart /\ C19_LedgerPart]_vars
    /\ [](\A h \in BagToSet(inflight) : h.pc = "grading" => h.duration >= 15)

\* the oracle has answered 80 to a submit that passed the gate, and its
\* Submission has been appended while another submit waits for its oracle call
C19_Witness ==
    /\ last.op = "grade" /\ last.out = "saved"
    /\ last.resp.kind = "object" /\ last.resp.score_type = "number"
    /\ last.resp.score = 80 /\ ~last.resp.ai
    /\ LastDoc.user_id = last.user /\ LastDoc.score = 80
    /\ LastDoc.duration_seconds >= 15
    /\ PendingCalls = 1

----------------------------------------------------------------------------
(* C20 *)

\* the timer entries of the keys other than key are what they were
C20_OthersKept(key) ==
    /\ (DOMAIN attempt_timers') \ {key} = (DOMAIN attempt_timers) \ {key}
    /\ \A k \in (DOMAIN attempt_timers) \ {key} :
          attempt_timers'[k] = attempt_timers[k]

C20_SelectPart ==
    SelectStep =>
        LET key == <<last'.user, last'.q>> IN
        /\ C20_OthersKept(key)
        /\ IsActive(questions_col, last'.q) =>
              (key \in DOMAIN attempt_timers' /\ attempt_timers'[key] = now)

C20_SubmitPart ==
    SubmitStep =>
        LET key == <<last'.user, last'.q>> IN
        /\ C20_OthersKept(key)
        /\ last'.timed => last'.dur = last'.since
        /\ last'.out = "grading" =>
              \E h \in BagToSet(inflight') :
                  /\ h.pc = "grading" /\ h.user = last'.user /\ h.q = last'.q
                  /\ h.duration = last'.since
                  /\ CopiesIn(h, inflight') = CopiesIn(h, inflight) + 1

C20_GradePart ==
    (GradeStep /\ Len(submissions_col') > Len(submissions_col)) =>
        /\ LastDoc'.duration_seconds = last'.dur
        /\ \E h \in BagToSet(inflight) :
              /\ h.pc = "grading" /\ h.duration = last'.dur
              /\ h.user = LastDoc'.user_id /\ h.q = LastDoc'.question_id
              /\ CopiesIn(h, inflight') = CopiesIn(h, inflight) - 1

\* C20: a language selection by p for an active question q overwrites any
\* unconsumed timer entry of (p, q) with the current time, so the elapsed
\* duration used by p's next submit for q, and stored in its Submission, is
\* measured from p's most recent selection for q, not from an earlier one;
\* the entries of the other keys are unchanged by the selection and by the
\* submit.
C20_LatestSelectionCounts ==
    [][C20_SelectPart /\ C20_SubmitPart /\ C20_GradePart]_vars

\* p selected a language, selected again 15 s later while the first entry was
\* unconsumed, and submitted 15 s after that: the submit at time 30 has an
\* elapsed duration of 15 and goes on to the oracle
C20_Witness ==
    /\ last.op = "submit" /\ last.out = "grading"
    /\ last.over /\ last.fresh /\ last.timed
    /\ now = 30 /\ last.dur = 15
    /\ \E h \in BagToSet(inflight) :
          h.pc = "grading" /\ h.user = last.user /\ h.q = last.q /\ h.duration = 15

====
